---- MODULE Spec2Model ----
(***************************************************************************)
(* Model of b2utils/bellesub.py: the catalog query get_mdst_list, the      *)
(* directory helper create_dir, the job builder create_jobs and the        *)
(* parallel dispatcher submit_jobs (multiprocessing.Pool + callback).      *)
(*                                                                         *)
(* A Python str is modelled as a sequence of one-character strings, so     *)
(* that concatenation, basename, strip, lower and list += str are computed *)
(* the way the interpreter computes them.                                  *)
(*                                                                         *)
(* Line 123 of bellesub.py fuses `def fake_system` with a second copy of   *)
(* create_dir; each function is modelled from its own body as written.     *)
(***************************************************************************)
EXTENDS Integers, Sequences, FiniteSets, TLC

VARIABLES
    \* ---- create_jobs / submit_jobs ----
    pc,         \* position of the caller in create_jobs / submit_jobs
    infiles,    \* argument infiles of create_jobs
    outdir,     \* argument outdir of create_jobs
    cmdlist,    \* local cmdlist of create_jobs, argument cmdlist of submit_jobs
    cjOutcome,  \* how create_jobs ended: "none", "returned", "IndexError"
    nworkers,   \* argument nworkers of submit_jobs
    nextJob,    \* position of the loop `for cmd in cmdlist` (line 166)
    taskq,      \* the pool's task queue: indices of cmdlist, in apply_async order
    running,    \* indices of cmdlist whose os.system call is executing in a worker
    outq,       \* the pool's result queue: os.system return values, in completion order
    results,    \* local list results of submit_jobs (appended by log_result)
    barCount,   \* tqdm bar position (bar.update() calls)
    failed,     \* local list failed of submit_jobs
    sjOutcome,  \* how submit_jobs ended: "none", "returned", "AssertionError"
    status,     \* exit status each job's external command returned (-1: not finished)
    executed,   \* how many times each job's external command was started
    \* ---- get_mdst_list ----
    gpc,        \* "call" before the call, "done" after it
    is_data, exp, event_type, data_type,   \* arguments of get_mdst_list
    catalog,    \* what b2c.parse_process_url answers for this query
    lookups,    \* number of calls of b2c.parse_process_url
    url,        \* the url built by get_mdst_list
    gOutcome,   \* "none", "returned", "ValueError", "NameError"
    gRet,       \* value returned by get_mdst_list
    \* ---- create_dir ----
    dpc,        \* "call" before the call, "done" after it
    fs,         \* what is at `path`: "absent", "file" or "dir"
    contents,   \* entries of the directory at `path`
    contents0,  \* entries of the directory at `path` when create_dir was called
    clear,      \* argument clear of create_dir
    answer,     \* line the operator types at the prompt
    eof,        \* TRUE when stdin is closed (input() raises EOFError)
    prompted,   \* TRUE when input() was called
    removed,    \* TRUE when shutil.rmtree(path) was called
    dOutcome    \* "none", "returned", "EOFError", "FileExistsError"

submitVars == <<pc, infiles, outdir, cmdlist, cjOutcome, nworkers, nextJob, taskq,
                running, outq, results, barCount, failed, sjOutcome, status, executed>>
catalogVars == <<gpc, is_data, exp, event_type, data_type, catalog, lookups, url,
                 gOutcome, gRet>>
dirVars == <<dpc, fs, contents, contents0, clear, answer, eof, prompted, removed, dOutcome>>
vars == <<submitVars, catalogVars, dirVars>>

----------------------------------------------------------------------------
(* Bounds *)
MaxJobs == 3
MaxWorkers == 2
MaxResp == 4

----------------------------------------------------------------------------
(* Python str helpers *)

\* the index of the last "/" of s, 0 when there is none (str.rfind + 1)
RECURSIVE RFindSlash(_, _)
RFindSlash(s, i) ==
    IF i = 0 THEN 0
    ELSE IF s[i] = "/" THEN i
    ELSE RFindSlash(s, i - 1)

\* posixpath.basename: everything after the last "/"
Basename(p) ==
    LET i == RFindSlash(p, Len(p))
    IN  SubSeq(p, i + 1, Len(p))

\* posixpath.join(a, b) for two components
OsPathJoin(a, b) ==
    IF Len(b) > 0 /\ b[1] = "/" THEN b
    ELSE IF Len(a) = 0 \/ a[Len(a)] = "/" THEN a \o b
    ELSE a \o <<"/">> \o b

\* all sequences over S of length 0..n
SeqsUpTo(S, n) == UNION {[1..k -> S] : k \in 0..n}

\* list += str: the list is extended by the characters of the string, each
\* a str of length one
ExtendWithStr(lst, s) == lst \o [k \in 1..Len(s) |-> <<s[k]>>]

----------------------------------------------------------------------------
(* create_jobs *)

StrBsub == <<"b","s","u","b"," ","-","q"," ","s"," ","-","o","o"," ">>
StrBasf2 == <<" ","b","a","s","f","2"," ">>
StrRedirect == <<" ",">",">"," ","b","s","u","b",".","l","o","g">>
StrLogSuffix == <<".","l","o","g">>
StrNtuplePrefix == <<"n","t","u","p","l","e",".">>

\* the steering script and the basf2 options the jobs are built with
Script == <<"s",".","p","y">>
B2opt == <<>>

\* input file paths and output directories the builder is driven with
InFiles == { <<"/","a","/","f">>, <<"/","b","/","f">>, <<"/","a","/","g">> }
OutDirs == { <<"o">>, <<"o","/">> }

LogFile(dir, infile) == OsPathJoin(dir, Basename(infile) \o StrLogSuffix)
OutFile(dir, infile) == OsPathJoin(dir, StrNtuplePrefix \o Basename(infile))

JobCmd(dir, script, infile, b2opt) ==
    StrBsub \o LogFile(dir, infile) \o StrBasf2 \o b2opt \o <<" ">> \o script
            \o <<" ">> \o infile \o <<" ">> \o OutFile(dir, infile) \o StrRedirect

\* the loop of lines 112-117
BuildCmdlist(dir, script, infs, b2opt) ==
    [k \in 1..Len(infs) |-> JobCmd(dir, script, infs[k], b2opt)]

\* cmdlist[0] of line 120 exists
FirstJobExists(cmds) == Len(cmds) > 0

\* create_jobs(outdir, script, infiles): builds cmdlist, then logs the number
\* of jobs and the first job, then returns cmdlist.  The caller goes on to
\* submit_jobs with the list that was built.
CreateJobs ==
    /\ pc = "create"
    /\ cmdlist' = BuildCmdlist(outdir, Script, infiles, B2opt)
    /\ cjOutcome' = IF FirstJobExists(cmdlist') THEN "returned" ELSE "IndexError"
    /\ pc' = "submit"
    /\ UNCHANGED <<infiles, outdir, nworkers, nextJob, taskq, running, outq, results,
                   barCount, failed, sjOutcome, status, executed>>
    /\ UNCHANGED <<catalogVars, dirVars>>

----------------------------------------------------------------------------
(* submit_jobs *)

\* exit statuses an external command may return
ExitCodes == {0, 1}

\* os.system returns the wait status: the exit status in the high byte
OsSystem(code) == code * 256

\* a pool that starts one process more than asked for
PoolProcessesOneMore(n) == n + 1

\* number of worker processes of mpl.Pool(processes = nworkers)
PoolProcesses(n) == n

\* a worker process is free to take a task
WorkerFree == Cardinality(running) < PoolProcesses(nworkers)

\* a join that does not wait for the result handler to drain the result queue
JoinReadyNoDrain == taskq = <<>> /\ running = {}

\* pool.join() returns: every task was taken, ran to its end and its result
\* was handled by the result handler (callbacks called)
JoinReady == taskq = <<>> /\ running = {} /\ outq = <<>>

\* lines 154-160: the pool, the progress bar and the empty results list
SubmitJobsBegin ==
    /\ pc = "submit"
    /\ \E n \in 1..MaxWorkers : nworkers' = n
    /\ results' = <<>>
    /\ barCount' = 0
    /\ nextJob' = 1
    /\ pc' = "submitting"
    /\ UNCHANGED <<infiles, outdir, cmdlist, cjOutcome, taskq, running, outq,
                   failed, sjOutcome, status, executed>>
    /\ UNCHANGED <<catalogVars, dirVars>>

\* line 167: pool.apply_async(os.system, [cmd], callback = log_result)
ApplyAsync ==
    /\ pc = "submitting"
    /\ nextJob <= Len(cmdlist)
    /\ taskq' = Append(taskq, nextJob)
    /\ nextJob' = nextJob + 1
    /\ UNCHANGED <<pc, infiles, outdir, cmdlist, cjOutcome, nworkers, running, outq,
                   results, barCount, failed, sjOutcome, status, executed>>
    /\ UNCHANGED <<catalogVars, dirVars>>

\* line 168: pool.close() after the loop
PoolClose ==
    /\ pc = "submitting"
    /\ nextJob > Len(cmdlist)
    /\ pc' = "joining"
    /\ UNCHANGED <<infiles, outdir, cmdlist, cjOutcome, nworkers, nextJob, taskq,
                   running, outq, results, barCount, failed, sjOutcome, status, executed>>
    /\ UNCHANGED <<catalogVars, dirVars>>

\* a free worker process takes the oldest task and starts os.system(cmd)
WorkerStart ==
    /\ pc \in {"submitting", "joining"}
    /\ taskq # <<>>
    /\ WorkerFree
    /\ running' = running \cup {Head(taskq)}
    /\ executed' = [executed EXCEPT ![Head(taskq)] = @ + 1]
    /\ taskq' = Tail(taskq)
    /\ UNCHANGED <<pc, infiles, outdir, cmdlist, cjOutcome, nworkers, nextJob, outq,
                   results, barCount, failed, sjOutcome, status>>
    /\ UNCHANGED <<catalogVars, dirVars>>

\* the external command of job i ends with some exit status; the worker puts
\* the value os.system returned on the result queue
WorkerFinish ==
    /\ pc \in {"submitting", "joining"}
    /\ \E i \in running : \E code \in ExitCodes :
          /\ running' = running \ {i}
          /\ status' = [status EXCEPT ![i] = code]
          /\ outq' = Append(outq, OsSystem(code))
    /\ UNCHANGED <<pc, infiles, outdir, cmdlist, cjOutcome, nworkers, nextJob, taskq,
                   results, barCount, failed, sjOutcome, executed>>
    /\ UNCHANGED <<catalogVars, dirVars>>

\* lines 162-164: the result handler calls log_result(result)
LogResult ==
    /\ pc \in {"submitting", "joining"}
    /\ outq # <<>>
    /\ results' = Append(results, Head(outq))
    /\ barCount' = barCount + 1
    /\ outq' = Tail(outq)
    /\ UNCHANGED <<pc, infiles, outdir, cmdlist, cjOutcome, nworkers, nextJob, taskq,
                   running, failed, sjOutcome, status, executed>>
    /\ UNCHANGED <<catalogVars, dirVars>>

\* line 169: pool.join() returns
PoolJoin ==
    /\ pc = "joining"
    /\ JoinReady
    /\ pc' = "checking"
    /\ UNCHANGED <<infiles, outdir, cmdlist, cjOutcome, nworkers, nextJob, taskq,
                   running, outq, results, barCount, failed, sjOutcome, status, executed>>
    /\ UNCHANGED <<catalogVars, dirVars>>

\* lines 174-175: the positions i the loop selects (results[i] != 0)
SelectedFailed(res) == {i \in 1..Len(res) : res[i] # 0}

\* lines 173-176: failed = []; for i in range(len(results)): failed += cmdlist[i]
RECURSIVE CollectFailed(_, _, _)
CollectFailed(res, cmds, i) ==
    IF i > Len(res) THEN <<>>
    ELSE (IF res[i] # 0 THEN ExtendWithStr(<<>>, cmds[i]) ELSE <<>>)
         \o CollectFailed(res, cmds, i + 1)

\* lines 171-182: the assertion, the failed list and the summary
CheckFailed ==
    /\ pc = "checking"
    /\ IF Len(results) = Len(cmdlist)
       THEN /\ failed' = CollectFailed(results, cmdlist, 1)
            /\ sjOutcome' = "returned"
       ELSE /\ failed' = failed
            /\ sjOutcome' = "AssertionError"
    /\ pc' = "done"
    /\ UNCHANGED <<infiles, outdir, cmdlist, cjOutcome, nworkers, nextJob, taskq,
                   running, outq, results, barCount, status, executed>>
    /\ UNCHANGED <<catalogVars, dirVars>>

----------------------------------------------------------------------------
(* get_mdst_list *)

BELLE_EVENT_TYPES == {"Any", "evtgen-mixed", "evtgen-charged", "evtgen-charm", "evtgen-uds"}
BELLE_DATA_TYPES == {"Any", "on_resonance"}

\* values the callers and the tests pass
EventTypeInputs == BELLE_EVENT_TYPES \cup {"charm"}
DataTypeInputs == BELLE_DATA_TYPES \cup {"resonance", "2S_scan"}
Experiments == {45, 69}
MdstPaths == {"m1", "m2"}

\* the names bound when line 56 runs: the parameters and the locals
ScopeNames == {"is_data", "exp", "run_start", "run_end", "event_type", "data_type",
               "belle_level", "stream", "skim", "url", "mdst_list"}

\* the name line 56 reads in `len(mdst)`
PreviewName == "mdst"

\* lines 48-53: the two url shapes
Url(isd, ex, et, dt) ==
    IF ~isd THEN [page |-> "montecarlo.php", ex |-> ex, ty |-> et, skm |-> "-", dt |-> dt]
    ELSE [page |-> "mdst.php", ex |-> ex, ty |-> "-", skm |-> "HadronBorJ", dt |-> dt]

\* a validation that forgets the data type
ValidArgsEventOnly(et, dt) == et \in BELLE_EVENT_TYPES

\* lines 43-46: the arguments pass the checks
ValidArgs(et, dt) == et \in BELLE_EVENT_TYPES /\ dt \in BELLE_DATA_TYPES

NoUrl == [page |-> "-", ex |-> 0, ty |-> "-", skm |-> "-", dt |-> "-"]

\* one call of get_mdst_list
GetMdstList ==
    /\ gpc = "call"
    /\ gpc' = "done"
    /\ IF ~ValidArgs(event_type, data_type)
       THEN /\ gOutcome' = "ValueError"
            /\ UNCHANGED <<lookups, url, gRet>>
       ELSE /\ url' = Url(is_data, exp, event_type, data_type)
            /\ lookups' = lookups + 1
            /\ IF PreviewName \in ScopeNames
               THEN /\ gOutcome' = "returned"
                    /\ gRet' = catalog
               ELSE /\ gOutcome' = "NameError"
                    /\ gRet' = gRet
    /\ UNCHANGED <<is_data, exp, event_type, data_type, catalog>>
    /\ UNCHANGED <<submitVars, dirVars>>

----------------------------------------------------------------------------
(* create_dir *)

ClearInputs == {"ask", "yes", "no", "maybe"}
DirEntries == {"f1", "f2"}
Answers == { <<>>, <<" ">>, <<"y">>, <<"Y">>, <<" ","y"," ">>, <<"y","e","s">>,
             <<"Y","E","S">>, <<"n">>, <<"N">>, <<"n","o">>, <<"n","y">> }

IsSpace(c) == c \in {" ", "\t", "\n"}

\* str.strip()
RECURSIVE LStrip(_)
LStrip(s) == IF Len(s) > 0 /\ IsSpace(s[1]) THEN LStrip(Tail(s)) ELSE s
RECURSIVE RStrip(_)
RStrip(s) == IF Len(s) > 0 /\ IsSpace(s[Len(s)]) THEN RStrip(SubSeq(s, 1, Len(s) - 1)) ELSE s
Strip(s) == RStrip(LStrip(s))

\* str.lower()
LowerChar(c) ==
    CASE c = "Y" -> "y"
      [] c = "E" -> "e"
      [] c = "S" -> "s"
      [] c = "N" -> "n"
      [] c = "O" -> "o"
      [] OTHER -> c
Lower(s) == [k \in 1..Len(s) |-> LowerChar(s[k])]

\* a choice that clears on an unrecognised value of clear
ChoiceInvalidClears(clr, ans) ==
    IF clr = "ask" THEN Lower(Strip(ans))
    ELSE IF clr = "yes" THEN <<"y">>
    ELSE IF clr = "no" THEN <<"n">>
    ELSE <<"y">>

\* lines 90-98: the choice for each value of clear
Choice(clr, ans) ==
    IF clr = "ask" THEN Lower(Strip(ans))
    ELSE IF clr = "yes" THEN <<"y">>
    ELSE IF clr = "no" THEN <<"n">>
    ELSE <<"n">>

\* line 100: choice == '' or choice.startswith('y')
ClearsDir(choice) == choice = <<>> \/ (Len(choice) > 0 /\ choice[1] = "y")

\* line 89: os.path.isdir(path) and len(os.listdir(path)) > 0
NonEmptyDir == fs = "dir" /\ contents # {}

\* one call of create_dir
CreateDir ==
    /\ dpc = "call"
    /\ dpc' = "done"
    /\ IF NonEmptyDir /\ clear = "ask" /\ eof
       THEN \* input() raises EOFError
            /\ prompted' = TRUE
            /\ dOutcome' = "EOFError"
            /\ UNCHANGED <<fs, contents, removed>>
       ELSE LET rm == NonEmptyDir /\ ClearsDir(Choice(clear, answer))
                fsAfterRm == IF rm THEN "absent" ELSE fs
            IN  /\ prompted' = (NonEmptyDir /\ clear = "ask")
                /\ removed' = rm
                /\ contents' = IF rm THEN {} ELSE contents
                \* line 103: os.makedirs(path, exist_ok = True)
                /\ IF fsAfterRm = "file"
                   THEN /\ fs' = "file"
                        /\ dOutcome' = "FileExistsError"
                   ELSE /\ fs' = "dir"
                        /\ dOutcome' = "returned"
    /\ UNCHANGED <<contents0, clear, answer, eof>>
    /\ UNCHANGED <<submitVars, catalogVars>>

----------------------------------------------------------------------------
(* Initial states *)

SubmitCall ==
    /\ pc = "create"
    /\ infiles \in SeqsUpTo(InFiles, MaxJobs)
    /\ outdir \in OutDirs
    /\ cmdlist = <<>>
    /\ cjOutcome = "none"
    /\ nworkers = 0
    /\ nextJob = 0
    /\ taskq = <<>>
    /\ running = {}
    /\ outq = <<>>
    /\ results = <<>>
    /\ barCount = 0
    /\ failed = <<>>
    /\ sjOutcome = "none"
    /\ status = [i \in 1..Len(infiles) |-> -1]
    /\ executed = [i \in 1..Len(infiles) |-> 0]

SubmitIdle ==
    /\ pc = "idle"
    /\ infiles = <<>>
    /\ outdir = <<>>
    /\ cmdlist = <<>>
    /\ cjOutcome = "none"
    /\ nworkers = 0
    /\ nextJob = 0
    /\ taskq = <<>>
    /\ running = {}
    /\ outq = <<>>
    /\ results = <<>>
    /\ barCount = 0
    /\ failed = <<>>
    /\ sjOutcome = "none"
    /\ status = <<>>
    /\ executed = <<>>

CatalogCall ==
    /\ gpc = "call"
    /\ is_data \in BOOLEAN
    /\ exp \in Experiments
    /\ event_type \in EventTypeInputs
    /\ data_type \in DataTypeInputs
    /\ catalog \in SeqsUpTo(MdstPaths, MaxResp)
    \* tests/test_bellesub.py lines 21-23: the catalog has no 2S_scan run of exp 69
    /\ (is_data /\ exp = 69 /\ data_type = "2S_scan") => catalog = <<>>
    /\ lookups = 0
    /\ url = NoUrl
    /\ gOutcome = "none"
    /\ gRet = <<>>

CatalogIdle ==
    /\ gpc = "idle"
    /\ is_data = FALSE
    /\ exp = 0
    /\ event_type = "Any"
    /\ data_type = "Any"
    /\ catalog = <<>>
    /\ lookups = 0
    /\ url = NoUrl
    /\ gOutcome = "none"
    /\ gRet = <<>>

DirCall ==
    /\ dpc = "call"
    /\ fs \in {"absent", "file", "dir"}
    /\ contents \in (IF fs = "dir" THEN SUBSET DirEntries ELSE {{}})
    /\ contents0 = contents
    /\ clear \in ClearInputs
    /\ eof \in BOOLEAN
    /\ answer \in (IF eof THEN {<<>>} ELSE Answers)
    /\ prompted = FALSE
    /\ removed = FALSE
    /\ dOutcome = "none"

DirIdle ==
    /\ dpc = "idle"
    /\ fs = "absent"
    /\ contents = {}
    /\ contents0 = {}
    /\ clear = "ask"
    /\ eof = FALSE
    /\ answer = <<>>
    /\ prompted = FALSE
    /\ removed = FALSE
    /\ dOutcome = "none"

InitSubmit == SubmitCall /\ CatalogIdle /\ DirIdle
InitCatalog == SubmitIdle /\ CatalogCall /\ DirIdle
InitDir == SubmitIdle /\ CatalogIdle /\ DirCall

NextSubmit ==
    \/ CreateJobs
    \/ SubmitJobsBegin
    \/ ApplyAsync
    \/ PoolClose
    \/ WorkerStart
    \/ WorkerFinish
    \/ LogResult
    \/ PoolJoin
    \/ CheckFailed

NextCatalog == GetMdstList

NextDir == CreateDir

SpecSubmit == InitSubmit /\ [][NextSubmit]_vars
SpecCatalog == InitCatalog /\ [][NextCatalog]_vars
SpecDir == InitDir /\ [][NextDir]_vars

----------------------------------------------------------------------------
(* Properties *)

\* jobs whose own external command returned a non-zero exit status
TrulyFailed == {i \in 1..Len(cmdlist) : status[i] > 0}

\* C1: when submit_jobs has built its failure list, the jobs it selected as
\* failed are exactly the jobs whose own command returned non-zero, whatever
\* the order in which the callbacks arrived.
C1_FailureAttribution ==
    (pc = "done" /\ sjOutcome = "returned")
        => {cmdlist[i] : i \in SelectedFailed(results)} = {cmdlist[i] : i \in TrulyFailed}

\* C2: with K jobs returning non-zero, the failed list has length exactly K,
\* and as many results were collected as there are jobs.
C2_FailedLength ==
    (pc = "done" /\ sjOutcome = "returned")
        => /\ Len(failed) = Cardinality(TrulyFailed)
           /\ Len(results) = Len(cmdlist)

\* C3: at every point of a run of submit_jobs at most nworkers external
\* commands are executing.
C3_BoundedConcurrency == Cardinality(running) <= nworkers

\* C3 witness: the pool is full while another job is still waiting
C3_Witness ==
    /\ nworkers >= 1
    /\ Cardinality(running) = nworkers
    /\ taskq # <<>>

\* number of positions of the sequence s holding the value v
Count(s, v) == Cardinality({k \in 1..Len(s) : s[k] = v})

\* C4: once pool.join() has returned, every job was executed exactly once and
\* reported exactly one exit status, the collected results are the jobs'
\* results with none lost or overwritten, the assertion of line 172 holds, and
\* at no time is a job executed twice.
C4_JoinAfterAll ==
    /\ \A i \in 1..Len(cmdlist) : executed[i] <= 1
    /\ sjOutcome # "AssertionError"
    /\ pc \in {"checking", "done"} =>
          /\ \A i \in 1..Len(cmdlist) : executed[i] = 1 /\ status[i] \in ExitCodes
          /\ Len(results) = Len(cmdlist)
          /\ barCount = Len(cmdlist)
          /\ \A c \in ExitCodes :
                Count(results, OsSystem(c)) = Cardinality({i \in 1..Len(cmdlist) : status[i] = c})

\* C4 witness: a run of several jobs got past the join and the assertion
C4_Witness ==
    /\ pc = "done"
    /\ sjOutcome = "returned"
    /\ Len(cmdlist) >= 2
    /\ \E i, j \in 1..Len(cmdlist) : status[i] = 0 /\ status[j] > 0

\* C5: for an empty input-file sequence create_jobs returns an empty job
\* sequence without raising, and submit_jobs on the empty sequence ends
\* without error, with no result, no failed job and no external process.
C5_EmptyInput ==
    (pc # "create" /\ infiles = <<>>) =>
        /\ cjOutcome = "returned"
        /\ cmdlist = <<>>
        /\ taskq = <<>> /\ running = {} /\ outq = <<>>
        /\ pc = "done" => (sjOutcome = "returned" /\ results = <<>> /\ failed = <<>>)

\* C6: a call of get_mdst_list whose event_type or data_type is outside the
\* fixed enumerations raises ValueError and never calls the catalog lookup,
\* for both values of is_data.
C6_InvalidRejected ==
    (gpc = "done" /\ (event_type \notin BELLE_EVENT_TYPES \/ data_type \notin BELLE_DATA_TYPES))
        => (gOutcome = "ValueError" /\ lookups = 0)

\* C6 witness: a call with a valid event type and an invalid data type ended
C6_Witness ==
    /\ gpc = "done"
    /\ event_type = "Any"
    /\ data_type = "resonance"
    /\ gOutcome = "ValueError"

\* C7: a call of get_mdst_list with valid event_type and data_type performs
\* exactly one lookup and returns the looked-up sequence unchanged, without
\* raising, for every result length.
C7_ValidReturns ==
    (gpc = "done" /\ event_type \in BELLE_EVENT_TYPES /\ data_type \in BELLE_DATA_TYPES)
        => (lookups = 1 /\ gOutcome = "returned" /\ gRet = catalog)

\* C8: the measured-data query with data_type "2S_scan" for experiment 69
\* makes get_mdst_list return the empty sequence.
C8_NoSuchRunEmpty ==
    (gpc = "done" /\ is_data /\ exp = 69 /\ data_type = "2S_scan" /\ event_type = "Any")
        => (gOutcome = "returned" /\ gRet = <<>>)

\* C9: for two distinct input paths of one batch the log paths differ and the
\* output paths differ.
C9_InjectivePaths ==
    (pc # "create") =>
        \A i, j \in 1..Len(infiles) :
            infiles[i] # infiles[j] =>
                /\ LogFile(outdir, infiles[i]) # LogFile(outdir, infiles[j])
                /\ OutFile(outdir, infiles[i]) # OutFile(outdir, infiles[j])

\* the operator's answer as create_dir reads it
Typed == Lower(Strip(answer))

\* the operator answered yes
SaidYes == Len(Typed) > 0 /\ Typed[1] = "y"

\* C10 as stated: create_dir removes the contents only on clear == 'yes' or
\* when the operator answered yes at the prompt; otherwise the contents are
\* as they were; and the directory exists when create_dir returns.
C10_ClearOnlyOnSignal ==
    dpc = "done" =>
        /\ removed => (clear = "yes" \/ (clear = "ask" /\ prompted /\ SaidYes))
        /\ ~removed => contents = contents0
        /\ dOutcome = "returned" => fs = "dir"

\* C10 amended: create_dir removes the contents only on clear == 'yes' or
\* when, at the prompt, the operator's answer stripped and lower-cased is
\* empty or begins with "y"; otherwise the contents are as they were; and the
\* directory exists when create_dir returns.
C10_ClearOnYesOrEmptyAnswer ==
    dpc = "done" =>
        /\ removed => (clear = "yes" \/ (clear = "ask" /\ prompted /\ ~eof
                                          /\ (SaidYes \/ Typed = <<>>)))
        /\ ~removed => contents = contents0
        /\ dOutcome = "returned" => fs = "dir"

\* C10 witness: a non-empty directory was cleared after the prompt
C10_Witness ==
    /\ dpc = "done"
    /\ clear = "ask"
    /\ prompted
    /\ removed
    /\ contents0 # {}
    /\ contents = {}
    /\ fs = "dir"
====
